---- MODULE Spec2Model ----
(***************************************************************************)
(* Model of vladiate/main.py: find_vladfile, load_vladfile, is_vlad and    *)
(* main() with its sequential and multiprocessing dispatch.                *)
(*                                                                         *)
(* Strings that the code inspects (paths, member names) are sequences of   *)
(* tokens: "foo.py" is <<"foo", ".py">>, "d/foo" is <<"d", "/", "foo">>,   *)
(* "_B" is <<"_", "B">>.  None and the empty string are both <<>>.         *)
(***************************************************************************)
EXTENDS Integers, Sequences, FiniteSets, TLC

VARIABLES pc, fs, root, arguments, vladfile, sys_path, path_before,
          added_to_path, index, members, vlads, vlad_classes, validated,
          missing, proc_pool, tasks, running, buffer, result_queue,
          reads, read_value, result

vars == <<pc, fs, root, arguments, vladfile, sys_path, path_before,
          added_to_path, index, members, vlads, vlad_classes, validated,
          missing, proc_pool, tasks, running, buffer, result_queue,
          reads, read_value, result>>

(* ---------------- bounds ---------------- *)
MaxSysPath == 3
MaxRequested == 2
MaxProcesses == 3

(* ---------------- exit codes of the os module ---------------- *)
EX_OK == 0
EX_DATAERR == 65
EX_NOINPUT == 66
EX_UNAVAILABLE == 69

(* ---------------- os.path on token sequences ---------------- *)
PyNone == <<>>
Cwd == <<"/", "w">>
Home == <<"/", "h">>

HasSlash(s) == \E k \in 1..Len(s) : s[k] = "/"

FirstSlash(s) == CHOOSE k \in 1..Len(s) : s[k] = "/" /\ \A j \in 1..(k-1) : s[j] # "/"

LastSlash(s) == CHOOSE k \in 1..Len(s) : s[k] = "/" /\ \A j \in (k+1)..Len(s) : s[j] # "/"

endswith_py(s) == Len(s) > 0 /\ s[Len(s)] = ".py"

startswith(s, t) == Len(s) > 0 /\ s[1] = t

\* os.path.dirname(p) is non-empty exactly when p contains a separator
dirname(s) ==
    IF ~HasSlash(s) THEN <<>>
    ELSE IF LastSlash(s) = 1 THEN <<"/">>
    ELSE SubSeq(s, 1, LastSlash(s) - 1)

basename(s) == IF ~HasSlash(s) THEN s ELSE SubSeq(s, LastSlash(s) + 1, Len(s))

isabs(s) == startswith(s, "/")

join(a, b) ==
    IF isabs(b) THEN b
    ELSE IF a = <<>> \/ a[Len(a)] = "/" THEN a \o b
    ELSE a \o <<"/">> \o b

\* "~" and "~/..." expand to the home directory; "~user" is left alone
expanduser(s) ==
    IF startswith(s, "~") /\ (Len(s) = 1 \/ s[2] = "/")
    THEN Home \o SubSeq(s, 2, Len(s))
    ELSE s

RECURSIVE SplitSlash(_)
SplitSlash(s) ==
    IF ~HasSlash(s) THEN <<s>>
    ELSE <<SubSeq(s, 1, FirstSlash(s) - 1)>> \o SplitSlash(SubSeq(s, FirstSlash(s) + 1, Len(s)))

RECURSIVE NormComps(_, _)
NormComps(comps, acc) ==
    IF comps = <<>> THEN acc
    ELSE LET c == Head(comps) IN
         IF c = <<>> \/ c = <<".">> THEN NormComps(Tail(comps), acc)
         ELSE IF c = <<"..">>
              THEN NormComps(Tail(comps), IF acc = <<>> THEN acc ELSE SubSeq(acc, 1, Len(acc) - 1))
              ELSE NormComps(Tail(comps), Append(acc, c))

RECURSIVE JoinComps(_)
JoinComps(comps) ==
    IF comps = <<>> THEN <<>>
    ELSE <<"/">> \o Head(comps) \o JoinComps(Tail(comps))

\* os.path.normpath of an absolute path
normpath(s) ==
    LET cs == NormComps(SplitSlash(s), <<>>) IN
    IF cs = <<>> THEN <<"/">> ELSE JoinComps(cs)

abspath(s) == normpath(IF isabs(s) THEN s ELSE join(Cwd, s))

(* ---------------- the file system ---------------- *)
Foo == <<"foo">>
FooPy == <<"foo", ".py">>
InitPy == <<"__init__", ".py">>

\* directories that always exist
FixedDirs == {<<"/">>, Cwd, Home, Cwd \o <<"/", "d">>}

\* entries whose kind varies: "absent", "file", "dir" (plain directory) or
\* "pkg" (directory holding __init__.py)
FsPaths == {join(d, b) : d \in {Cwd, Home, Cwd \o <<"/", "d">>}, b \in {Foo, FooPy}}
Kinds == {"absent", "file", "dir", "pkg"}

Kind(a) ==
    IF a \in FixedDirs THEN "dir"
    ELSE IF a \in DOMAIN fs THEN fs[a]
    ELSE IF basename(a) = InitPy /\ dirname(a) \in DOMAIN fs /\ fs[dirname(a)] = "pkg" THEN "file"
    ELSE "absent"

exists(p) == Kind(abspath(p)) # "absent"

isdir(p) == Kind(abspath(p)) \in {"dir", "pkg"}

_is_package(path) == isdir(path) /\ exists(join(path, InitPy))

(* ---------------- find_vladfile ---------------- *)
\* mutant: the ".py" candidate is never tried
CandidateNames_mut(name) == <<name>>

CandidateNames(name) == IF ~endswith_py(name) THEN <<name, name \o <<".py">>>> ELSE <<name>>

\* the path a candidate is tested at
CandidatePath(name, first, path) ==
    IF dirname(first) # <<>> THEN expanduser(name) ELSE join(path, name)

Accepted(name, first, path) ==
    /\ exists(CandidatePath(name, first, path))
    /\ (endswith_py(name) \/ _is_package(CandidatePath(name, first, path)))

find_vladfile(name, path) ==
    LET names == CandidateNames(name)
        hits == {k \in 1..Len(names) : Accepted(names[k], names[1], path)}
    IN IF hits = {} THEN PyNone
       ELSE LET k == CHOOSE h \in hits : \A g \in hits : h <= g
            IN abspath(CandidatePath(names[k], names[1], path))

(* ---------------- is_vlad ---------------- *)
\* A top-level member of the vladfile: vlad says inspect.isclass(item) and
\* issubclass(item, Vlad); source and validators hold the attribute's value
\* when the attribute exists and are {} when it does not.
NameA == <<"A">>
NameB == <<"B">>
NameC == <<"C">>
NamePrivate == <<"_", "P">>
NameUnknown == <<"Z">>

SourceAttrs == {{}, {""}, {"people.csv"}}
ValidatorAttrs == {{}, {<<>>}, {<<"NotEmpty">>}}
Members == [vlad : BOOLEAN, source : SourceAttrs, validators : ValidatorAttrs]

GoodVlad == [vlad |-> TRUE, source |-> {"people.csv"}, validators |-> {<<"NotEmpty">>}]
NoSourceVlad == [vlad |-> TRUE, source |-> {""}, validators |-> {<<"NotEmpty">>}]

hasattr(attr) == attr # {}

\* mutant: validators is tested for truth like source
is_vlad_mut(name, item) ==
    /\ item.vlad
    /\ hasattr(item.source) /\ (\E v \in item.source : v # "")
    /\ hasattr(item.validators) /\ (\E v \in item.validators : v # <<>>)
    /\ ~startswith(name, "_")

is_vlad(name, item) ==
    /\ item.vlad
    /\ hasattr(item.source) /\ (\E v \in item.source : v # "")
    /\ hasattr(item.validators)
    /\ ~startswith(name, "_")

\* dict(filter(is_vlad, vars(imported).items()))
filter_vlads(ms) ==
    [n \in {m \in DOMAIN ms : is_vlad(m, ms[m])} |-> ms[n]]

(* ---------------- list helpers ---------------- *)
\* list.insert(k, x) with a 0-based k
insert(l, k, x) ==
    IF k >= Len(l) THEN Append(l, x)
    ELSE SubSeq(l, 1, k) \o <<x>> \o SubSeq(l, k + 1, Len(l))

\* del l[k] with a 0-based k
delete(l, k) == SubSeq(l, 1, k) \o SubSeq(l, k + 2, Len(l))

contains(l, x) == \E k \in 1..Len(l) : l[k] = x

\* list.index(x), 0-based
index_of(l, x) == (CHOOSE k \in 1..Len(l) : l[k] = x /\ \A j \in 1..(k-1) : l[j] # x) - 1

Range(l) == {l[k] : k \in 1..Len(l)}

\* the orders a set or a dict's values may be iterated in
Orders(S) == {l \in [1..Cardinality(S) -> S] : Range(l) = S}

(* ---------------- find_vladfile as a call ---------------- *)
CallFind ==
    /\ pc = "find"
    /\ vladfile' = find_vladfile(arguments.vladfile, root)
    /\ pc' = "found"
    /\ UNCHANGED <<fs, root, arguments, sys_path, path_before, added_to_path, index,
                   members, vlads, vlad_classes, validated, missing, proc_pool, tasks,
                   running, buffer, result_queue, reads, read_value, result>>

(* ---------------- load_vladfile ---------------- *)
\* lines 119-136: make the vladfile's directory the first entry of sys.path
PreparedPath(path, directory) ==
    IF ~contains(path, directory) THEN insert(path, 0, directory)
    ELSE IF index_of(path, directory) # 0
         THEN delete(insert(path, 0, directory), index_of(path, directory) + 1)
         ELSE path

\* lines 139-145: undo it
RestoredPath(path, directory, added, idx) ==
    LET p1 == IF added THEN delete(path, 0) ELSE path
    IN IF idx # -1 THEN delete(insert(p1, idx + 1, directory), 0) ELSE p1

LoadPrepare ==
    /\ pc = "load"
    /\ path_before' = sys_path
    /\ added_to_path' = ~contains(sys_path, dirname(vladfile))
    /\ index' = IF contains(sys_path, dirname(vladfile)) /\ index_of(sys_path, dirname(vladfile)) # 0
                THEN index_of(sys_path, dirname(vladfile)) ELSE -1
    /\ sys_path' = PreparedPath(sys_path, dirname(vladfile))
    /\ pc' = "import"
    /\ UNCHANGED <<fs, root, arguments, vladfile, members, vlads, vlad_classes, validated,
                   missing, proc_pool, tasks, running, buffer, result_queue, reads,
                   read_value, result>>

\* __import__ returns the module: restore sys.path and filter the members
ImportOk ==
    /\ pc = "import"
    /\ sys_path' = RestoredPath(sys_path, dirname(vladfile), added_to_path, index)
    /\ vlads' = filter_vlads(members)
    /\ pc' = "loaded"
    /\ UNCHANGED <<fs, root, arguments, vladfile, path_before, added_to_path, index, members,
                   vlad_classes, validated, missing, proc_pool, tasks, running, buffer,
                   result_queue, reads, read_value, result>>

\* __import__ raises: the exception leaves load_vladfile and main at line 138
ImportRaise ==
    /\ pc = "import"
    /\ pc' = "load_raised"
    /\ UNCHANGED <<fs, root, arguments, vladfile, sys_path, path_before, added_to_path, index,
                   members, vlads, vlad_classes, validated, missing, proc_pool, tasks,
                   running, buffer, result_queue, reads, read_value, result>>

(* ---------------- main ---------------- *)
\* lines 163-173: --version, then resolve the vladfile
MainStart ==
    /\ pc = "main"
    /\ IF arguments.show_version
       THEN /\ result' = <<EX_OK>>
            /\ pc' = "done"
            /\ UNCHANGED vladfile
       ELSE /\ vladfile' = find_vladfile(arguments.vladfile, <<".">>)
            /\ IF vladfile' = PyNone
               THEN result' = <<EX_NOINPUT>> /\ pc' = "done"
               ELSE result' = result /\ pc' = "load"
    /\ UNCHANGED <<fs, root, arguments, sys_path, path_before, added_to_path, index,
                   members, vlads, vlad_classes, validated, missing, proc_pool, tasks,
                   running, buffer, result_queue, reads, read_value>>

\* mutant: unknown names are not detected
Missing_mut(requested, d) == {}

Missing(requested, d) == Range(requested) \ DOMAIN d

\* mutant: the requested names are ignored
SelectedNames_mut(requested, d) == DOMAIN d

SelectedNames(requested, d) ==
    IF requested # <<>> THEN Range(requested) \cap DOMAIN d ELSE DOMAIN d

\* lines 177-197: --list, the empty mapping, the requested names
MainSelect ==
    /\ pc = "loaded"
    /\ IF arguments.list_commands
       THEN result' = <<EX_OK>> /\ pc' = "done" /\ UNCHANGED <<missing, vlad_classes>>
       ELSE IF DOMAIN vlads = {}
       THEN result' = <<EX_NOINPUT>> /\ pc' = "done" /\ UNCHANGED <<missing, vlad_classes>>
       ELSE IF arguments.vlads # <<>> /\ Missing(arguments.vlads, vlads) # {}
       THEN /\ missing' = Missing(arguments.vlads, vlads)
            /\ result' = <<EX_UNAVAILABLE>> /\ pc' = "done" /\ UNCHANGED vlad_classes
       ELSE /\ vlad_classes' \in Orders(SelectedNames(arguments.vlads, vlads))
            /\ pc' = "dispatch"
            /\ UNCHANGED <<missing, result>>
    /\ UNCHANGED <<fs, root, arguments, vladfile, sys_path, path_before, added_to_path, index,
                   members, vlads, validated, proc_pool, tasks, running, buffer,
                   result_queue, reads, read_value>>

\* mutant: the pool is not capped by the number of units
PoolSize_mut(processes, n) == processes

PoolSize(processes, n) == IF processes <= n THEN processes ELSE n

\* lines 201, 206-211: choose the mode; Pool(n) raises ValueError for n < 1,
\* proc_pool.map hands every element of vlad_classes to the pool
MainDispatch ==
    /\ pc = "dispatch"
    /\ IF arguments.processes = 1
       THEN pc' = "sequential" /\ UNCHANGED <<proc_pool, tasks, running, buffer>>
       ELSE IF PoolSize(arguments.processes, Len(vlad_classes)) < 1
       THEN pc' = "pool_raised" /\ UNCHANGED <<proc_pool, tasks, running, buffer>>
       ELSE /\ proc_pool' = PoolSize(arguments.processes, Len(vlad_classes))
            /\ tasks' = vlad_classes
            /\ running' = [w \in 1..proc_pool' |-> <<>>]
            /\ buffer' = [w \in 1..proc_pool' |-> <<>>]
            /\ pc' = "map"
    /\ UNCHANGED <<fs, root, arguments, vladfile, sys_path, path_before, added_to_path, index,
                   members, vlads, vlad_classes, validated, missing, result_queue, reads,
                   read_value, result>>

Call(unit, raised, outcome) == [unit |-> unit, raised |-> raised, outcome |-> outcome]

\* line 203: validate() returns; its value is dropped
SeqValidate ==
    /\ pc = "sequential"
    /\ Len(validated) < Len(vlad_classes)
    /\ \E outcome \in BOOLEAN :
          validated' = Append(validated, Call(vlad_classes[Len(validated) + 1], FALSE, outcome))
    /\ UNCHANGED <<pc, fs, root, arguments, vladfile, sys_path, path_before, added_to_path, index,
                   members, vlads, vlad_classes, missing, proc_pool, tasks, running, buffer,
                   result_queue, reads, read_value, result>>

\* mutant: the exception is swallowed and the loop goes on
SeqRaise_mut ==
    /\ pc = "sequential"
    /\ Len(validated) < Len(vlad_classes)
    /\ validated' = Append(validated, Call(vlad_classes[Len(validated) + 1], TRUE, FALSE))
    /\ UNCHANGED <<pc, fs, root, arguments, vladfile, sys_path, path_before, added_to_path, index,
                   members, vlads, vlad_classes, missing, proc_pool, tasks, running, buffer,
                   result_queue, reads, read_value, result>>

\* line 203: validate() raises and the exception leaves main
SeqRaise ==
    /\ pc = "sequential"
    /\ Len(validated) < Len(vlad_classes)
    /\ validated' = Append(validated, Call(vlad_classes[Len(validated) + 1], TRUE, FALSE))
    /\ pc' = "unit_raised"
    /\ UNCHANGED <<fs, root, arguments, vladfile, sys_path, path_before, added_to_path, index,
                   members, vlads, vlad_classes, missing, proc_pool, tasks, running, buffer,
                   result_queue, reads, read_value, result>>

\* the loop of line 202 is exhausted: main falls off its end and returns None
SeqReturn ==
    /\ pc = "sequential"
    /\ Len(validated) = Len(vlad_classes)
    /\ result' = PyNone
    /\ pc' = "done"
    /\ UNCHANGED <<fs, root, arguments, vladfile, sys_path, path_before, added_to_path, index,
                   members, vlads, vlad_classes, validated, missing, proc_pool, tasks, running,
                   buffer, result_queue, reads, read_value>>

\* an idle pool worker takes the next task
WorkerTake(w) ==
    /\ pc = "map"
    /\ running[w] = <<>>
    /\ tasks # <<>>
    /\ running' = [running EXCEPT ![w] = Head(tasks)]
    /\ tasks' = Tail(tasks)
    /\ UNCHANGED <<pc, fs, root, arguments, vladfile, sys_path, path_before, added_to_path, index,
                   members, vlads, vlad_classes, validated, missing, proc_pool, buffer,
                   result_queue, reads, read_value, result>>

\* _vladiate: validate() returns and the outcome is put on result_queue;
\* Queue.put only appends to the putting process's buffer
WorkerValidate(w) ==
    /\ pc = "map"
    /\ running[w] # <<>>
    /\ \E outcome \in BOOLEAN :
          /\ validated' = Append(validated, Call(running[w], FALSE, outcome))
          /\ buffer' = [buffer EXCEPT ![w] = Append(@, outcome)]
    /\ running' = [running EXCEPT ![w] = <<>>]
    /\ UNCHANGED <<pc, fs, root, arguments, vladfile, sys_path, path_before, added_to_path, index,
                   members, vlads, vlad_classes, missing, proc_pool, tasks, result_queue,
                   reads, read_value, result>>

\* _vladiate: validate() raises, nothing is put
WorkerRaise(w) ==
    /\ pc = "map"
    /\ running[w] # <<>>
    /\ validated' = Append(validated, Call(running[w], TRUE, FALSE))
    /\ running' = [running EXCEPT ![w] = <<>>]
    /\ UNCHANGED <<pc, fs, root, arguments, vladfile, sys_path, path_before, added_to_path, index,
                   members, vlads, vlad_classes, missing, proc_pool, tasks, buffer,
                   result_queue, reads, read_value, result>>

\* the feeder thread of a worker's Queue writes a buffered item to the pipe
Feeder(w) ==
    /\ pc \in {"map", "read"}
    /\ buffer[w] # <<>>
    /\ result_queue' = Append(result_queue, Head(buffer[w]))
    /\ buffer' = [buffer EXCEPT ![w] = Tail(@)]
    /\ UNCHANGED <<pc, fs, root, arguments, vladfile, sys_path, path_before, added_to_path, index,
                   members, vlads, vlad_classes, validated, missing, proc_pool, tasks, running,
                   reads, read_value, result>>

\* proc_pool.map returns once every task has finished, or re-raises a
\* task's exception
MapReturn ==
    /\ pc = "map"
    /\ Len(validated) = Len(vlad_classes)
    /\ pc' = IF \E k \in 1..Len(validated) : validated[k].raised THEN "unit_raised" ELSE "read"
    /\ UNCHANGED <<fs, root, arguments, vladfile, sys_path, path_before, added_to_path, index,
                   members, vlads, vlad_classes, validated, missing, proc_pool, tasks, running,
                   buffer, result_queue, reads, read_value, result>>

\* mutant: the test of the value read is inverted
ReadQueue_mut ==
    /\ pc = "read"
    /\ reads' = reads + 1
    /\ IF result_queue = <<>>
       THEN /\ read_value' = <<>>
            /\ result' = <<EX_OK>>
            /\ UNCHANGED result_queue
       ELSE /\ read_value' = <<Head(result_queue)>>
            /\ result_queue' = Tail(result_queue)
            /\ result' = IF Head(result_queue) THEN <<EX_DATAERR>> ELSE <<EX_OK>>
    /\ pc' = "done"
    /\ UNCHANGED <<fs, root, arguments, vladfile, sys_path, path_before, added_to_path, index,
                   members, vlads, vlad_classes, validated, missing, proc_pool, tasks, running,
                   buffer>>

\* lines 212-217: result_queue.get_nowait()
ReadQueue ==
    /\ pc = "read"
    /\ reads' = reads + 1
    /\ IF result_queue = <<>>
       THEN /\ read_value' = <<>>
            /\ result' = <<EX_OK>>
            /\ UNCHANGED result_queue
       ELSE /\ read_value' = <<Head(result_queue)>>
            /\ result_queue' = Tail(result_queue)
            /\ result' = IF ~Head(result_queue) THEN <<EX_DATAERR>> ELSE <<EX_OK>>
    /\ pc' = "done"
    /\ UNCHANGED <<fs, root, arguments, vladfile, sys_path, path_before, added_to_path, index,
                   members, vlads, vlad_classes, validated, missing, proc_pool, tasks, running,
                   buffer>>

\* run(): exit(main()); exit(None) is exit status 0
exit_status == IF result = PyNone THEN 0 ELSE result[1]

(* ---------------- specifications ---------------- *)
DirX == <<"/", "x">>
DirY == <<"/", "y">>

Seqs(S, n) == UNION {[1..k -> S] : k \in 0..n}

NoFile == [p \in FsPaths |-> "absent"]

Idle ==
    /\ vlads = <<>> /\ vlad_classes = <<>> /\ validated = <<>> /\ missing = {}
    /\ proc_pool = 0 /\ tasks = <<>> /\ running = <<>> /\ buffer = <<>>
    /\ result_queue = <<>> /\ reads = 0 /\ read_value = <<>> /\ result = PyNone
    /\ path_before = <<>> /\ added_to_path = FALSE /\ index = -1

Arguments(f, v, p, l, sv) ==
    [vladfile |-> f, vlads |-> v, processes |-> p, list_commands |-> l, show_version |-> sv]

\* the whole program
Init ==
    /\ pc = "main"
    /\ fs \in {NoFile, [NoFile EXCEPT ![join(Cwd, FooPy)] = "file"],
                [NoFile EXCEPT ![join(Cwd, Foo)] = "pkg"]}
    /\ root = <<".">>
    /\ \E v \in Seqs({NameA, NameB, NameUnknown}, MaxRequested), p \in 0..MaxProcesses,
          f \in {<<FALSE, FALSE>>, <<TRUE, FALSE>>, <<FALSE, TRUE>>} :
          arguments = Arguments(Foo, v, p, f[1], f[2])
    /\ vladfile = PyNone
    /\ sys_path \in {<<DirX>>, <<DirX, Cwd>>}
    /\ \E S \in SUBSET {NameA, NameB, NameC} :
          members \in [S \cup {NamePrivate} -> {GoodVlad, NoSourceVlad}]
    /\ Idle

Next ==
    \/ MainStart
    \/ LoadPrepare
    \/ ImportOk
    \/ ImportRaise
    \/ MainSelect
    \/ MainDispatch
    \/ SeqValidate
    \/ SeqRaise
    \/ SeqReturn
    \/ \E w \in 1..proc_pool : WorkerTake(w)
    \/ \E w \in 1..proc_pool : WorkerValidate(w)
    \/ \E w \in 1..proc_pool : WorkerRaise(w)
    \/ \E w \in 1..proc_pool : Feeder(w)
    \/ MapReturn
    \/ ReadQueue

Spec == Init /\ [][Next]_vars

\* find_vladfile applied to every name and directory layout
FindNames ==
    {Foo, FooPy, <<"d", "/", "foo">>, <<"d", "/", "foo", ".py">>, <<"~", "/", "foo">>,
     <<".", "/", "foo", ".py">>, <<"/", "w", "/", "d", "/", "..", "/", "foo">>}

InitFind ==
    /\ pc = "find"
    /\ fs \in [FsPaths -> Kinds]
    /\ root \in {<<".">>, <<"d">>}
    /\ \E f \in FindNames : arguments = Arguments(f, <<>>, 1, FALSE, FALSE)
    /\ vladfile = PyNone
    /\ sys_path = <<>>
    /\ members = <<>>
    /\ Idle

NextFind == CallFind

SpecFind == InitFind /\ [][NextFind]_vars

\* load_vladfile applied to every sys.path and every set of members
InitLoad ==
    /\ pc = "load"
    /\ fs = [NoFile EXCEPT ![join(Cwd, FooPy)] = "file"]
    /\ root = <<".">>
    /\ arguments = Arguments(Foo, <<>>, 1, FALSE, FALSE)
    /\ vladfile = join(Cwd, FooPy)
    /\ sys_path \in Seqs({Cwd, DirX, DirY}, MaxSysPath)
    /\ \E S \in SUBSET {NameA, NamePrivate} : members \in [S -> Members]
    /\ Idle

NextLoad ==
    \/ LoadPrepare
    \/ ImportOk
    \/ ImportRaise

SpecLoad == InitLoad /\ [][NextLoad]_vars

(* ---------------- claims ---------------- *)
Min(a, b) == IF a <= b THEN a ELSE b

Distinct(l) == \A j, k \in 1..Len(l) : l[j] = l[k] => j = k

Busy == {w \in DOMAIN running : running[w] # <<>>}

\* C1: once load_vladfile has finished, by returning or by raising, sys.path
\* has the entries it had before the call, in the same order.
C1_SearchPathRestored ==
    pc \in {"loaded", "load_raised"} => sys_path = path_before

\* C2: with one discovered unit, no positional names and a validate() that
\* returns a falsy outcome, main returns os.EX_DATAERR, whatever processes is.
C2_FalsyOutcomeIsDataError ==
    (/\ pc = "done"
     /\ arguments.vlads = <<>>
     /\ Cardinality(DOMAIN vlads) = 1
     /\ Len(validated) = 1
     /\ ~validated[1].raised /\ ~validated[1].outcome)
    => result = <<EX_DATAERR>>

\* C3 as stated: the mapping holds exactly the public Vlad subclasses with a
\* truthy source and a non-empty validators collection.
C3_ValidatorsNonEmpty ==
    pc = "loaded" =>
        DOMAIN vlads = {n \in DOMAIN members :
                           /\ members[n].vlad
                           /\ n[1] # "_"
                           /\ members[n].source = {"people.csv"}
                           /\ members[n].validators = {<<"NotEmpty">>}}

\* C3 amended: the mapping holds exactly the public Vlad subclasses with a
\* truthy source and a validators attribute, which may be empty; a member
\* failing one of these conditions is not in the mapping.
C3_DiscoveryPurity ==
    pc = "loaded" =>
        /\ DOMAIN vlads = {n \in DOMAIN members :
                              /\ members[n].vlad
                              /\ n[1] # "_"
                              /\ members[n].source = {"people.csv"}
                              /\ members[n].validators \in {{<<>>}, {<<"NotEmpty">>}}}
        /\ \A n \in DOMAIN vlads : vlads[n] = members[n]

C3_Witness ==
    /\ pc = "loaded"
    /\ NameA \in DOMAIN vlads /\ members[NameA].validators = {<<>>}
    /\ NamePrivate \in DOMAIN members /\ members[NamePrivate] = GoodVlad

\* C4: for a non-empty mapping D and requested names R: R empty selects all
\* of D; R within keys(D) selects the units named in R, each once; otherwise
\* selection fails with os.EX_UNAVAILABLE and reports R minus keys(D).
Selecting ==
    /\ pc \notin {"find", "found", "main", "load", "import", "load_raised", "loaded"}
    /\ ~arguments.list_commands
    /\ DOMAIN vlads # {}

C4_Selection ==
    Selecting =>
        IF \A k \in 1..Len(arguments.vlads) : arguments.vlads[k] \in DOMAIN vlads
        THEN /\ Distinct(vlad_classes)
             /\ Range(vlad_classes) =
                   IF arguments.vlads = <<>> THEN DOMAIN vlads
                   ELSE {n \in DOMAIN vlads : \E k \in 1..Len(arguments.vlads) : arguments.vlads[k] = n}
             /\ missing = {}
             /\ result # <<EX_UNAVAILABLE>>
        ELSE /\ pc = "done"
             /\ result = <<EX_UNAVAILABLE>>
             /\ missing = {arguments.vlads[k] : k \in 1..Len(arguments.vlads)} \ DOMAIN vlads
             /\ vlad_classes = <<>>

C4_Witness ==
    /\ pc = "dispatch"
    /\ arguments.vlads = <<NameA, NameA>>
    /\ DOMAIN vlads = {NameA, NameB}
    /\ vlad_classes = <<NameA>>

\* C5 as stated: in sequential mode all-success gives OK, and after a unit
\* whose validate() returned a falsy outcome no later unit is validated.
Sequential == arguments.processes = 1 /\ vlad_classes # <<>>

AllPassed == \A k \in 1..Len(validated) : ~validated[k].raised /\ validated[k].outcome

C5_AbortOnFalsyOutcome ==
    Sequential =>
        /\ (pc = "done" /\ AllPassed) => exit_status = EX_OK
        /\ \A k \in 1..Len(validated) :
              (~validated[k].raised /\ ~validated[k].outcome) => k = Len(validated)

\* C5 amended: in sequential mode the units are validated in the selected
\* order; all-success gives exit status OK; the run aborts at a unit whose
\* validate() raises, and no later unit is validated; a falsy outcome does
\* not abort the run, every selected unit is validated before main returns.
C5_SequentialOrder ==
    Sequential =>
        /\ Len(validated) <= Len(vlad_classes)
        /\ \A k \in 1..Len(validated) : validated[k].unit = vlad_classes[k]
        /\ (pc = "done" /\ AllPassed) => exit_status = EX_OK
        /\ \A k \in 1..Len(validated) :
              validated[k].raised => (k = Len(validated) /\ pc = "unit_raised")
        /\ pc = "done" => Len(validated) = Len(vlad_classes)

C5_Witness ==
    /\ Sequential
    /\ pc = "unit_raised"
    /\ Len(vlad_classes) = 3
    /\ Len(validated) = 2
    /\ ~validated[1].raised /\ ~validated[1].outcome

\* C6: the pool has min(processes, |selected|) workers, every selected unit
\* is exactly one task, and never more than that many units are validating.
C6_PoolBound ==
    proc_pool # 0 =>
        /\ proc_pool = Min(arguments.processes, Len(vlad_classes))
        /\ DOMAIN running = 1..proc_pool
        /\ Cardinality(Busy) <= Min(arguments.processes, Len(vlad_classes))
        /\ Len(tasks) + Cardinality(Busy) + Len(validated) = Len(vlad_classes)
        /\ Range(tasks) \cup {running[w] : w \in Busy} \cup {validated[k].unit : k \in 1..Len(validated)}
              = Range(vlad_classes)

C6_Witness ==
    /\ pc = "map"
    /\ arguments.processes > 2
    /\ Len(vlad_classes) = 2
    /\ Cardinality(Busy) = 2

LookupDir ==
    IF arguments.vladfile \in {Foo, FooPy} THEN (IF root = <<".">> THEN Cwd ELSE Cwd \o <<"/", "d">>)
    ELSE IF arguments.vladfile[1] = "d" THEN Cwd \o <<"/", "d">>
    ELSE IF arguments.vladfile[1] = "~" THEN Home
    ELSE Cwd

HasPy == arguments.vladfile[Len(arguments.vladfile)] = ".py"

C9_DirectoryIsPackage ==
    (pc = "found" /\ vladfile # <<>> /\ fs[vladfile] \in {"dir", "pkg"}) => fs[vladfile] = "pkg"

\* C10: when the vladfile is not found it is never loaded and the result is
\* NO_VLADFILE; when nothing is discovered or a requested name is unknown no
\* unit is validated, in either mode.
C10_ShortCircuit ==
    /\ (pc # "main" /\ ~arguments.show_version /\ vladfile = <<>>) =>
          /\ pc = "done" /\ result = <<EX_NOINPUT>>
          /\ path_before = <<>> /\ vlads = <<>>
    /\ (validated # <<>> \/ proc_pool # 0 \/ pc \in {"sequential", "map", "read"}) =>
          /\ vladfile # <<>>
          /\ DOMAIN vlads # {}
          /\ \A k \in 1..Len(arguments.vlads) : arguments.vlads[k] \in DOMAIN vlads

C10_Witness ==
    /\ pc = "done"
    /\ result = <<EX_UNAVAILABLE>>
    /\ arguments.vlads = <<NameA, NameUnknown>>
    /\ NameA \in DOMAIN vlads
    /\ arguments.processes = 2
    /\ validated = <<>>

====
